---- MODULE Spec2Model ----
(***************************************************************************)
(* The playback controller of web-scrobbler (src/unnamed/part_000, class   *)
(* Controller) as a state machine.                                         *)
(*                                                                         *)
(* Every handler of the controller is an operator from a controller record *)
(* to a controller record, written in the order of the handler's           *)
(* statements; an action of the machine applies one handler, or the        *)
(* continuation of one `await`, to the current state.  A handler that      *)
(* awaits an external promise puts a call record in `inflight`; the        *)
(* completion of that call is a later action that runs the code after the  *)
(* `await` against whatever the controller's fields hold by then.          *)
(*                                                                         *)
(* Timer, Song, Pipeline, ScrobbleService, Options, SavedEdits and Util    *)
(* are required by the controller but are not part of src/: they are       *)
(* modelled from spec.md (sections 3 and 6) and marked so in the map.      *)
(***************************************************************************)
EXTENDS Integers, Sequences, FiniteSets, TLC

VARIABLES
    isEnabled,              \* this.isEnabled
    mode,                   \* this.mode
    currentSong,            \* this.currentSong (id = 0: null)
    isReplayingSong,        \* this.isReplayingSong
    shouldScrobblePodcasts, \* this.shouldScrobblePodcasts
    playbackTimer,          \* this.playbackTimer
    replayDetectionTimer,   \* this.replayDetectionTimer
    inflight,               \* external calls awaited by a handler, in start order
    emitted,                \* what the step just taken sent to the host and started
    last                    \* the step just taken: handler, input, whether it threw

vars == <<isEnabled, mode, currentSong, isReplayingSong, shouldScrobblePodcasts,
          playbackTimer, replayDetectionTimer, inflight, emitted, last>>

\* The controller's own fields, without the observation variables.
ctlVars == <<isEnabled, mode, currentSong, isReplayingSong, shouldScrobblePodcasts,
             playbackTimer, replayDetectionTimer>>

-----------------------------------------------------------------------------
\* Bounds of the model.

\* Most external calls a controller has outstanding at once.
MaxCalls == 2
\* Most seconds a started timer is followed for.
MaxElapsed == 1
\* Most services a submission is sent to (length of a result collection).
MaxServices == 2

-----------------------------------------------------------------------------
\* Values.

Modes == {"Disabled", "Base", "Loading", "Playing", "Scrobbled", "Ignored",
          "Err", "Unknown", "Skipped"}

Events == {"ControllerReset", "SongNowPlaying", "SongScrobbled", "SongUnrecognized"}

\* ServiceCallResult values: success, intentionally ignored, a failure kind.
RESULT_OK == "OK"
RESULT_IGNORE == "IGNORE"
RESULT_ERROR == "ERROR"
ServiceCallResults == {RESULT_OK, RESULT_IGNORE, RESULT_ERROR}

\* Ordered result collections of a submission against 0..MaxServices services.
ResultLists == UNION {[1..n -> ServiceCallResults] : n \in 0..MaxServices}

\* Results of Util.getSecondsToScrobble; -1 signals "too short to scrobble".
NotScrobblable == -1
SecondsToScrobble == {NotScrobblable, 1}

\* Connector states (snapshots).  "" stands for an absent string field.
State(artist, track, album, uniqueID, duration, isPlaying, isPodcast) ==
    [artist |-> artist, track |-> track, album |-> album, uniqueID |-> uniqueID,
     duration |-> duration, currentTime |-> 0, isPlaying |-> isPlaying,
     trackArt |-> "", isPodcast |-> isPodcast]

\* The snapshots a connector delivers here: two without enough data (nothing
\* at all, paused; an artist without a track, playing), track T of artist A
\* (before and after its duration is known, playing and paused) and a podcast
\* episode P (playing and paused).
States == {State("", "", "", "", 0, FALSE, FALSE),
           State("A", "", "", "", 0, TRUE, FALSE),
           State("A", "T", "L", "", 0, TRUE, FALSE),
           State("A", "T", "L", "", 1, TRUE, FALSE),
           State("A", "T", "L", "", 1, FALSE, FALSE),
           State("A", "P", "", "p", 1, TRUE, TRUE),
           State("A", "P", "", "p", 1, FALSE, TRUE)}

\* The arguments toggleLove is called with.
LoveInputs == {TRUE}

-----------------------------------------------------------------------------
\* Timer (object/timer): a resumable countdown with one callback.

\* new Timer(), and a timer after reset(): no callback, no target, no time.
\* fired: the callback has been invoked (isExpired).  rearmed: a target set
\* after that has scheduled the callback again.
TimerNew == [started |-> FALSE, paused |-> FALSE, target |-> 0, elapsed |-> 0,
             fired |-> FALSE, rearmed |-> FALSE]

\* timer.start(cb): wires the callback and starts counting with no target.
Timer_start(t) == [TimerNew EXCEPT !.started = TRUE]

\* timer.pause(): elapsed time is kept.
Timer_pause(t) == [t EXCEPT !.paused = TRUE]

\* timer.resume()
Timer_resume(t) == [t EXCEPT !.paused = FALSE]

\* timer.update(seconds): sets the target (0: null, no target) on the timer as
\* it runs; time already elapsed counts against the new target.  spec.md does
\* not say whether a target set on a timer that has expired schedules the
\* callback again (the controller's test at line 464 is there to avoid the
\* case): rearms is the timer's answer.
Timer_update(t, seconds, rearms) ==
    [t EXCEPT !.target = seconds,
              !.rearmed = seconds # 0 /\ t.fired /\ rearms]

\* timer.reset(): clears time and target and cancels a pending firing.
Timer_reset(t) == TimerNew

\* timer.isExpired(): the callback has been invoked.
Timer_isExpired(t) == t.fired

\* The timer counts: started and not paused.
Timer_isRunning(t) == t.started /\ ~t.paused

\* The callback is due: a running timer with a target that has elapsed, once
\* for each time it is scheduled.
Timer_isDue(t) ==
    /\ Timer_isRunning(t)
    /\ t.target # 0
    /\ t.elapsed >= t.target
    /\ ~t.fired \/ t.rearmed

\* The callback is invoked.
Timer_fire(t) == [t EXCEPT !.fired = TRUE, !.rearmed = FALSE]

\* One second passes.
Timer_tick(t) == IF Timer_isRunning(t) THEN [t EXCEPT !.elapsed = @ + 1] ELSE t

-----------------------------------------------------------------------------
\* Song (object/song).

\* null
NoSong == [id |-> 0, artist |-> "", track |-> "", album |-> "", uniqueID |-> "",
           duration |-> 0, currentTime |-> 0, isPlaying |-> FALSE, trackArt |-> "",
           isPodcast |-> FALSE,
           isSkipped |-> FALSE, isReplaying |-> FALSE, isScrobbled |-> FALSE,
           isMarkedAsPlaying |-> FALSE, isValid |-> FALSE]

\* new Song(newState, connector): parsed fields copied from the snapshot, every
\* flag false.  id = 1: an object; which object it is shows in the calls made
\* for it (see Call).
Song_new(s) ==
    [NoSong EXCEPT !.id = 1, !.artist = s.artist, !.track = s.track,
                   !.album = s.album, !.uniqueID = s.uniqueID,
                   !.duration = s.duration, !.currentTime = s.currentTime,
                   !.isPlaying = s.isPlaying, !.trackArt = s.trackArt,
                   !.isPodcast = s.isPodcast]

\* song.isValid()
Song_isValid(song) == song.isValid

\* song.getDuration()
Song_getDuration(song) == song.duration

\* song.resetData(): the song counts as unprocessed again.  spec.md does not
\* say what becomes of the flags (section 3: "monotonic unless explicitly
\* reset"): initsFlags is the song's answer, every flag as in a new Song or
\* every flag kept.
Song_resetData(song, initsFlags) ==
    IF initsFlags
    THEN [song EXCEPT !.isValid = FALSE, !.isSkipped = FALSE, !.isReplaying = FALSE,
                      !.isScrobbled = FALSE, !.isMarkedAsPlaying = FALSE]
    ELSE [song EXCEPT !.isValid = FALSE]

\* song.setLoveStatus(isLoved, { force: true }) writes the song's metadata,
\* which no handler of the controller reads: nothing modelled changes.
Song_setLoveStatus(song, isLoved) == song

-----------------------------------------------------------------------------
\* Result aggregation (part_000:582-598).

isAnyResult(results, result) == \E i \in 1..Len(results) : results[i] = result

\* areAllResults without the test of line 593 for an empty list.
areAllResults_Mut(results, result) ==
    \A i \in 1..Len(results) : results[i] = result

areAllResults(results, result) ==
    IF Len(results) = 0 THEN FALSE
    ELSE \A i \in 1..Len(results) : results[i] = result

\* isStateEmpty with || for && at line 564: an artist alone makes the snapshot
\* non-empty.
isStateEmpty_Mut(state) ==
    /\ ~(state.artist # "" \/ state.track # "")
    /\ ~(state.uniqueID # "")
    /\ ~(state.duration # 0)

\* isStateEmpty (part_000:563-565); "" and 0 are the falsy values.
isStateEmpty(state) ==
    /\ ~(state.artist # "" /\ state.track # "")
    /\ ~(state.uniqueID # "")
    /\ ~(state.duration # 0)

-----------------------------------------------------------------------------
\* The controller as a record, so that handlers compose as the methods do.
\* out collects what the handler sends and starts; threw says an Error or a
\* TypeError ended the handler (what it changed before that stays changed).

Cur == [isEnabled |-> isEnabled, mode |-> mode, song |-> currentSong,
        isReplayingSong |-> isReplayingSong,
        shouldScrobblePodcasts |-> shouldScrobblePodcasts,
        playbackTimer |-> playbackTimer,
        replayDetectionTimer |-> replayDetectionTimer,
        inflight |-> inflight, out |-> <<>>, threw |-> FALSE]

Out(t, v) == [t |-> t, v |-> v]

\* An awaited external call.  k: what is awaited ("process": pipeline.process,
\* "option": Options.getOption in updateTimers, "nowplaying" and "scrobble":
\* the submissions, "edit": SavedEdits.removeSongInfo or saveSongInfo, "love":
\* ScrobbleService.toggleLove, "updateTimers": the promise of updateTimers
\* that processSong awaits at line 349, once updateTimers has returned).
\* song, for the pipeline and for a scrobble: 1
\* while the song object the call was given is still this.currentSong, 0 once
\* this.currentSong is another object or null.  dur, cont: the duration
\* argument of updateTimers and whether processSong awaits it.  loved: the
\* argument of toggleLove.
Call(k, song, dur, cont, loved) ==
    [k |-> k, song |-> song, dur |-> dur, cont |-> cont, loved |-> loved]

CallKinds ==
    <<"process", "option", "nowplaying", "scrobble", "edit", "love", "updateTimers">>

\* The calls are kept in the order of CallKinds, and calls of one kind in the
\* order they were made: which call returns next does not depend on it.
KindRank(k) == CHOOSE n \in 1..Len(CallKinds) : CallKinds[n] = k

\* The handler calls an asynchronous external function and awaits it.
startCall(c, call) ==
    LET n == Cardinality({i \in 1..Len(c.inflight) :
                             KindRank(c.inflight[i].k) <= KindRank(call.k)})
    IN [c EXCEPT !.inflight = SubSeq(@, 1, n) \o <<call>> \o SubSeq(@, n + 1, Len(@)),
                 !.out = Append(@, Out("call", call.k))]

\* updateTimers has returned to processSong, which awaits its promise (349):
\* the rest of processSong is queued behind the continuations queued before.
\* An await of the controller's own function is not a call to the outside.
awaitUpdateTimers(c) ==
    [c EXCEPT !.inflight = Append(@, Call("updateTimers", 0, 0, FALSE, FALSE))]

\* The awaited call at position i has completed.
endCall(c, i) ==
    [c EXCEPT !.inflight = SubSeq(@, 1, i - 1) \o SubSeq(@, i + 1, Len(@))]

\* An exception leaves the handler.
throw(c) == [c EXCEPT !.threw = TRUE]

\* this.currentSong stops referring to its object: the calls made for that
\* object are calls for a song that is no longer current.
dropSong(c) ==
    [c EXCEPT !.song = NoSong,
              !.inflight = [i \in DOMAIN @ |-> [@[i] EXCEPT !.song = 0]]]

-----------------------------------------------------------------------------
\* Controller: internal functions.

\* setMode (229-236)
setMode(c, m) == [c EXCEPT !.mode = m, !.out = Append(@, Out("mode", m))]

\* dispatchEvent (238-244)
dispatchEvent(c, e) == [c EXCEPT !.out = Append(@, Out("event", e))]

\* onSongUpdated (55-57): the track-updated notification of the host.
onSongUpdated(c) == [c EXCEPT !.out = Append(@, Out("songUpdated", ""))]

\* assertSongIsPlaying (541-545): TRUE when it throws.
assertSongIsPlaying(c) == c.song.id = 0

\* resetState (323-330)
resetState(c) ==
    LET c1 == dispatchEvent(c, "ControllerReset")
    IN dropSong([c1 EXCEPT !.playbackTimer = Timer_reset(@),
                           !.replayDetectionTimer = Timer_reset(@)])

\* reset (536-539)
reset(c) == setMode(resetState(c), "Base")

\* setSongNowPlaying (488-491), up to the await of sendNowPlaying.
setSongNowPlaying(c) ==
    LET c1 == [c EXCEPT !.song.isMarkedAsPlaying = TRUE]
    IN startCall(c1, Call("nowplaying", 0, 0, FALSE, FALSE))

\* setSongNowPlaying with the dispatch of line 500 inside the success branch.
setSongNowPlayingDone_Mut(c, results) ==
    IF isAnyResult(results, RESULT_OK)
    THEN dispatchEvent(setMode(c, "Playing"), "SongNowPlaying")
    ELSE setMode(c, "Err")

\* setSongNowPlaying (492-500), after the await: results is what
\* ScrobbleService.sendNowPlaying returned.
setSongNowPlayingDone(c, results) ==
    LET c1 == IF isAnyResult(results, RESULT_OK)
              THEN setMode(c, "Playing")
              ELSE setMode(c, "Err")
    IN dispatchEvent(c1, "SongNowPlaying")

\* setSongNotRecognized (506-509)
setSongNotRecognized(c) ==
    dispatchEvent(setMode(c, "Unknown"), "SongUnrecognized")

\* scrobbleSong (516-517), up to the await of scrobble: the playback timer's
\* callback.
scrobbleSong(c) == startCall(c, Call("scrobble", c.song.id, 0, FALSE, FALSE))

\* scrobbleSong (518-533), after the await.  Line 521 dereferences
\* this.currentSong: with no song it throws before the mode is set.
scrobbleSongDone(c, results) ==
    IF isAnyResult(results, RESULT_OK)
    THEN IF c.song.id = 0
         THEN throw(c)
         ELSE LET c1 == [c EXCEPT !.song.isScrobbled = TRUE]
                  c2 == setMode(c1, "Scrobbled")
                  c3 == onSongUpdated(c2)
              IN dispatchEvent(c3, "SongScrobbled")
    ELSE IF areAllResults(results, RESULT_IGNORE)
         THEN setMode(c, "Ignored")
         ELSE setMode(c, "Err")

\* updateTimers (463-469), up to the await of Options.getOption; with an
\* expired playback timer it returns at line 466 and awaits nothing.
updateTimers(c, duration, cont) ==
    IF Timer_isExpired(c.playbackTimer)
    THEN c
    ELSE startCall(c, Call("option", 0, duration, cont, FALSE))

\* updateTimers (470-481), after the await: secondsToScrobble is what
\* Util.getSecondsToScrobble made of the option read.
updateTimersDone(c, duration, secondsToScrobble, rearms) ==
    IF secondsToScrobble # NotScrobblable
    THEN [c EXCEPT !.playbackTimer = Timer_update(@, secondsToScrobble, rearms),
                   !.replayDetectionTimer = Timer_update(@, duration, rearms)]
    ELSE c

\* processSong (351-374), after the await of updateTimers.  Line 355
\* dereferences this.currentSong.
processSongAfterTimers(c) ==
    IF c.song.id = 0
    THEN throw(c)
    ELSE LET c1 == IF c.song.isPlaying
                   THEN IF ~Timer_isExpired(c.playbackTimer)
                        THEN setSongNowPlaying(c)
                        ELSE dispatchEvent(c, "SongNowPlaying")
                   ELSE setMode(c, "Base")
         IN onSongUpdated(c1)

\* processSong (335-338), up to the await of pipeline.process.
processSong(c) ==
    startCall(setMode(c, "Loading"), Call("process", c.song.id, 0, FALSE, FALSE))

\* processSong (338-349 and, for a song that is not valid, 367-374), after the
\* await of pipeline.process: result is what it returned.  Line 343
\* dereferences this.currentSong.  With a valid song processSong awaits
\* updateTimers: when updateTimers returns at line 466 (expired playback
\* timer) the await of line 349 still suspends processSong.
processSongDone(c, result) ==
    IF ~result
    THEN c
    ELSE IF c.song.id = 0
    THEN throw(c)
    ELSE IF Song_isValid(c.song)
    THEN LET c1 == [c EXCEPT !.song.isMarkedAsPlaying = FALSE]
             c2 == updateTimers(c1, Song_getDuration(c1.song), TRUE)
         IN IF Timer_isExpired(c1.playbackTimer)
            THEN awaitUpdateTimers(c2)
            ELSE c2
    ELSE onSongUpdated(setSongNotRecognized(c))

\* unprocessSong (381-389).  Line 382 dereferences this.currentSong.
unprocessSong(c, initsFlags) ==
    IF c.song.id = 0
    THEN throw(c)
    ELSE [c EXCEPT !.song = Song_resetData(@, initsFlags),
                   !.playbackTimer = Timer_update(@, 0, FALSE),
                   !.replayDetectionTimer = Timer_update(@, 0, FALSE)]

\* onPlayingStateChanged (395-415)
onPlayingStateChanged(c, value) ==
    IF value
    THEN LET c1 == [c EXCEPT !.playbackTimer = Timer_resume(@),
                             !.replayDetectionTimer = Timer_resume(@)]
         IN IF ~c1.song.isMarkedAsPlaying /\ Song_isValid(c1.song)
            THEN setSongNowPlaying(c1)
            ELSE setMode(c1, c1.mode)
    ELSE [c EXCEPT !.playbackTimer = Timer_pause(@),
                   !.replayDetectionTimer = Timer_pause(@)]

\* isSongChanged (422-434)
isSongChanged(c, newState) ==
    IF c.song.id = 0
    THEN TRUE
    ELSE \/ newState.artist # c.song.artist
         \/ newState.track # c.song.track
         \/ newState.album # c.song.album
         \/ newState.uniqueID # c.song.uniqueID

\* isNeedToUpdateDuration (441-443)
isNeedToUpdateDuration(c, newState) ==
    newState.duration # 0 /\ c.song.duration # newState.duration

\* updateSongDuration (449-457)
updateSongDuration(c, duration) ==
    LET c1 == [c EXCEPT !.song.duration = duration]
    IN IF Song_isValid(c1.song) THEN updateTimers(c1, duration, FALSE) ELSE c1

\* skipCurrentSong with the assertion of line 117 after setMode.
skipCurrentSong_Mut(c) ==
    LET c1 == setMode(c, "Skipped")
    IN IF assertSongIsPlaying(c1)
       THEN throw(c1)
       ELSE onSongUpdated([c1 EXCEPT !.song.isSkipped = TRUE,
                                     !.playbackTimer = Timer_reset(@),
                                     !.replayDetectionTimer = Timer_reset(@)])

\* skipCurrentSong (116-127)
skipCurrentSong(c) ==
    IF assertSongIsPlaying(c)
    THEN throw(c)
    ELSE LET c1 == setMode(c, "Skipped")
             c2 == [c1 EXCEPT !.song.isSkipped = TRUE,
                              !.playbackTimer = Timer_reset(@),
                              !.replayDetectionTimer = Timer_reset(@)]
         IN onSongUpdated(c2)

\* processNewState (250-293)
processNewState(c, newState) ==
    LET c1 == resetState(c)
        c2 == [c1 EXCEPT !.song = [Song_new(newState)
                                     EXCEPT !.isReplaying = c1.isReplayingSong]]
    IN IF ~c2.shouldScrobblePodcasts /\ newState.isPodcast
       THEN skipCurrentSong(c2)
       ELSE LET c3 == [c2 EXCEPT !.playbackTimer = Timer_start(@),
                                 !.replayDetectionTimer = Timer_start(@)]
                c4 == IF ~newState.isPlaying
                      THEN [c3 EXCEPT !.playbackTimer = Timer_pause(@),
                                      !.replayDetectionTimer = Timer_pause(@)]
                      ELSE c3
                c5 == processSong(c4)
            IN [c5 EXCEPT !.isReplayingSong = FALSE]

\* processCurrentState (299-318)
processCurrentState(c, newState) ==
    IF c.song.isSkipped
    THEN c
    ELSE LET isPlayingStateChanged == c.song.isPlaying # newState.isPlaying
             c1 == [c EXCEPT !.song.currentTime = newState.currentTime,
                             !.song.isPlaying = newState.isPlaying,
                             !.song.trackArt = newState.trackArt]
             c2 == IF isNeedToUpdateDuration(c1, newState)
                   THEN updateSongDuration(c1, newState.duration)
                   ELSE c1
         IN IF isPlayingStateChanged
            THEN onPlayingStateChanged(c2, newState.isPlaying)
            ELSE c2

-----------------------------------------------------------------------------
\* Controller: public functions.

\* finish (95-98)
finish(c) == resetState(c)

\* setEnabled (81-90)
setEnabled(c, flag) ==
    LET c1 == [c EXCEPT !.isEnabled = flag]
    IN IF flag
       THEN setMode(c1, "Base")
       ELSE setMode(resetState(c1), "Disabled")

\* onStateChanged without the isEnabled guard of lines 192-194.
onStateChanged_Mut(c, newState) ==
    IF isStateEmpty(newState)
    THEN IF c.song.id # 0 THEN reset(c) ELSE c
    ELSE IF isSongChanged(c, newState) \/ c.isReplayingSong
    THEN IF newState.isPlaying
         THEN processNewState(c, newState)
         ELSE reset(c)
    ELSE processCurrentState(c, newState)

\* onStateChanged (191-225)
onStateChanged(c, newState) ==
    IF ~c.isEnabled
    THEN c
    ELSE IF isStateEmpty(newState)
    THEN IF c.song.id # 0 THEN reset(c) ELSE c
    ELSE IF isSongChanged(c, newState) \/ c.isReplayingSong
    THEN IF newState.isPlaying
         THEN processNewState(c, newState)
         ELSE reset(c)
    ELSE processCurrentState(c, newState)

\* resetSongData (103-107), up to the await of SavedEdits.removeSongInfo.
\* song.resetInfo() drops corrected metadata, none of which is modelled.
resetSongData(c) ==
    IF assertSongIsPlaying(c)
    THEN throw(c)
    ELSE startCall(c, Call("edit", 0, 0, FALSE, FALSE))

\* setUserSongData (157-164), up to the await of SavedEdits.saveSongInfo.
setUserSongData(c) ==
    IF assertSongIsPlaying(c)
    THEN throw(c)
    ELSE IF c.song.isScrobbled
    THEN throw(c)
    ELSE startCall(c, Call("edit", 0, 0, FALSE, FALSE))

\* resetSongData (109-110) and setUserSongData (166-167), after the await.
reprocessSong(c, initsFlags) ==
    LET c1 == unprocessSong(c, initsFlags)
    IN IF c1.threw THEN c1 ELSE processSong(c1)

\* toggleLove (174-181), up to the await of ScrobbleService.toggleLove.
toggleLove(c, isLoved) ==
    IF assertSongIsPlaying(c)
    THEN throw(c)
    ELSE IF ~Song_isValid(c.song)
    THEN throw(c)
    ELSE startCall(c, Call("love", 0, 0, FALSE, isLoved))

\* toggleLove (183-184), after the await.  Line 183 dereferences
\* this.currentSong.
toggleLoveDone(c, isLoved) ==
    IF c.song.id = 0
    THEN throw(c)
    ELSE onSongUpdated([c EXCEPT !.song = Song_setLoveStatus(@, isLoved)])

-----------------------------------------------------------------------------
\* External collaborators.

\* pipeline.process(song) mutates the song object it was given: by the time it
\* returns, that object is valid or not.  It is the current song's validity
\* only if the current song is still that object.
pipelineProcess(c, song, valid) ==
    IF song # 0 /\ c.song.id = song
    THEN [c EXCEPT !.song.isValid = valid]
    ELSE c

-----------------------------------------------------------------------------
\* The state machine.

\* What `last` records of a step: the handler, whether it threw, the song
\* object an awaited call was made for, and the input in short.
Step(op, c, song, arg) == [op |-> op, threw |-> c.threw, song |-> song, arg |-> arg]

Bool(b) == IF b THEN "true" ELSE "false"

\* No step is on record.
NoStep == [op |-> "none", threw |-> FALSE, song |-> 0, arg |-> ""]

\* The step leaves the controller as the handler left the record, and is put
\* on record.  Handlers run to completion one at a time: a handler starts when
\* the record of the one before has been taken (Recorded).
Commit(c, l) ==
    /\ last = NoStep
    /\ Len(c.inflight) <= MaxCalls
    /\ isEnabled' = c.isEnabled
    /\ mode' = c.mode
    /\ currentSong' = c.song
    /\ isReplayingSong' = c.isReplayingSong
    /\ shouldScrobblePodcasts' = c.shouldScrobblePodcasts
    /\ playbackTimer' = c.playbackTimer
    /\ replayDetectionTimer' = c.replayDetectionTimer
    /\ inflight' = c.inflight
    /\ emitted' = c.out
    /\ last' = l

\* constructor (32-48): a controller created enabled or disabled.
Init ==
    /\ isEnabled \in BOOLEAN
    /\ mode = IF isEnabled THEN "Base" ELSE "Disabled"
    /\ currentSong = NoSong
    /\ isReplayingSong = FALSE
    /\ shouldScrobblePodcasts = TRUE
    /\ playbackTimer = TimerNew
    /\ replayDetectionTimer = TimerNew
    /\ inflight = <<>>
    /\ emitted = <<>>
    /\ last = NoStep

\* constructor (45): the read of Options.SCROBBLE_PODCASTS completes and its
\* value is assigned to the field, which holds TRUE until then.  A read that
\* yields TRUE leaves the controller as it is, so the step that shows is the
\* one that assigns FALSE.
PodcastOptionLoadedWith(value) ==
    /\ shouldScrobblePodcasts
    /\ LET c == [Cur EXCEPT !.shouldScrobblePodcasts = value]
       IN Commit(c, Step("podcastOption", c, 0, Bool(value)))

PodcastOptionLoaded == \E value \in {FALSE} : PodcastOptionLoadedWith(value)

\* No continuation of the controller is queued.  The host, the user and the
\* timers act in tasks of their own, which start after the queued
\* continuations have run; the returns of external calls that are delivered in
\* one task run one after the other with nothing of these in between.
NoneQueued == \A i \in 1..Len(inflight) : inflight[i].k # "updateTimers"

\* The host unloads the controller's connector.
Finish ==
    /\ NoneQueued
    /\ LET c == finish(Cur)
       IN Commit(c, Step("finish", c, 0, ""))

\* The host enables or disables the controller.
SetEnabledWith(flag) ==
    /\ NoneQueued
    /\ LET c == setEnabled(Cur, flag)
       IN Commit(c, Step("setEnabled", c, 0, Bool(flag)))

SetEnabled == \E flag \in BOOLEAN : SetEnabledWith(flag)

\* The connector reports a state.
OnStateChangedWith(newState) ==
    /\ NoneQueued
    /\ LET c == onStateChanged(Cur, newState)
       IN Commit(c, Step("onStateChanged", c, 0,
                         IF isStateEmpty(newState) THEN "empty" ELSE "track"))

OnStateChanged == \E newState \in States : OnStateChangedWith(newState)

\* The user resets the song data.
ResetSongData ==
    /\ NoneQueued
    /\ LET c == resetSongData(Cur)
       IN Commit(c, Step("resetSongData", c, 0, ""))

\* The user skips the song.
SkipCurrentSong ==
    /\ NoneQueued
    /\ LET c == skipCurrentSong(Cur)
       IN Commit(c, Step("skipCurrentSong", c, 0, ""))

\* The user edits the song.
SetUserSongData ==
    /\ NoneQueued
    /\ LET c == setUserSongData(Cur)
       IN Commit(c, Step("setUserSongData", c, 0, ""))

\* The user loves or unloves the song.
ToggleLoveWith(isLoved) ==
    /\ NoneQueued
    /\ LET c == toggleLove(Cur, isLoved)
       IN Commit(c, Step("toggleLove", c, 0, Bool(isLoved)))

ToggleLove == \E isLoved \in LoveInputs : ToggleLoveWith(isLoved)

\* A second of playback passes on the running timers.
Tick ==
    /\ NoneQueued
    /\ Timer_isRunning(playbackTimer) \/ Timer_isRunning(replayDetectionTimer)
    /\ playbackTimer.elapsed < MaxElapsed
    /\ replayDetectionTimer.elapsed < MaxElapsed
    /\ LET c == [Cur EXCEPT !.playbackTimer = Timer_tick(@),
                            !.replayDetectionTimer = Timer_tick(@)]
       IN Commit(c, Step("tick", c, 0, ""))

\* The playback timer invokes its callback (271-273).
PlaybackTimerFired ==
    /\ NoneQueued
    /\ Timer_isDue(playbackTimer)
    /\ LET c == scrobbleSong([Cur EXCEPT !.playbackTimer = Timer_fire(@)])
       IN Commit(c, Step("playbackTimer", c, c.song.id, ""))

\* The replay detection timer invokes its callback (275-278).
ReplayDetectionTimerFired ==
    /\ NoneQueued
    /\ Timer_isDue(replayDetectionTimer)
    /\ LET c == [Cur EXCEPT !.replayDetectionTimer = Timer_fire(@),
                            !.isReplayingSong = TRUE]
       IN Commit(c, Step("replayDetectionTimer", c, c.song.id, ""))

\* pipeline.process returns to processSong: call i, with the boolean it
\* returns and the validity it has left the song object with.  In spec.md
\* (section 6) the boolean is that validity; processSong reads the two
\* separately (338, 345), and the step is defined for every pair.
PipelineDoneWith(i, result, valid) ==
    /\ i \in 1..Len(inflight)
    /\ inflight[i].k = "process"
    /\ LET c0 == pipelineProcess(endCall(Cur, i), inflight[i].song, valid)
           c == processSongDone(c0, result)
       IN Commit(c, Step("pipelineDone", c, inflight[i].song, Bool(result)))

PipelineDone ==
    \E i \in 1..Len(inflight), result \in BOOLEAN, valid \in BOOLEAN :
        PipelineDoneWith(i, result, valid)

\* Options.getOption returns to updateTimers, which runs to its end (470-482);
\* a processSong that awaits it (cont) is queued to resume.
\* secondsToScrobble: what Util.getSecondsToScrobble returns; rearms: what the
\* timers do with a target set after they expired.
OptionDoneWith(i, secondsToScrobble, rearms) ==
    /\ i \in 1..Len(inflight)
    /\ inflight[i].k = "option"
    /\ LET c0 == updateTimersDone(endCall(Cur, i), inflight[i].dur, secondsToScrobble,
                                  rearms)
           c == IF inflight[i].cont THEN awaitUpdateTimers(c0) ELSE c0
       IN Commit(c, Step("optionDone", c, 0, Bool(inflight[i].cont)))

OptionDone ==
    \E i \in 1..Len(inflight), secondsToScrobble \in SecondsToScrobble,
       rearms \in BOOLEAN :
        OptionDoneWith(i, secondsToScrobble, rearms)

\* processSong resumes after its await of updateTimers (351-374).
UpdateTimersReturned ==
    /\ \E i \in 1..Len(inflight) :
          /\ inflight[i].k = "updateTimers"
          /\ LET c == processSongAfterTimers(endCall(Cur, i))
             IN Commit(c, Step("updateTimersReturned", c, 0, ""))

\* ScrobbleService.sendNowPlaying returns to setSongNowPlaying.
NowPlayingDoneWith(i, results) ==
    /\ i \in 1..Len(inflight)
    /\ inflight[i].k = "nowplaying"
    /\ LET c == setSongNowPlayingDone(endCall(Cur, i), results)
       IN Commit(c, Step("nowPlayingDone", c, 0, ""))

NowPlayingDone ==
    \E i \in 1..Len(inflight), results \in ResultLists : NowPlayingDoneWith(i, results)

\* ScrobbleService.scrobble returns to scrobbleSong.
ScrobbleDoneWith(i, results) ==
    /\ i \in 1..Len(inflight)
    /\ inflight[i].k = "scrobble"
    /\ LET c == scrobbleSongDone(endCall(Cur, i), results)
       IN Commit(c, Step("scrobbleDone", c, inflight[i].song, ""))

ScrobbleDone ==
    \E i \in 1..Len(inflight), results \in ResultLists : ScrobbleDoneWith(i, results)

\* SavedEdits.removeSongInfo returns to resetSongData, or
\* SavedEdits.saveSongInfo to setUserSongData.  initsFlags: what
\* song.resetData() does with the flags.
EditDoneWith(i, initsFlags) ==
    /\ i \in 1..Len(inflight)
    /\ inflight[i].k = "edit"
    /\ LET c == reprocessSong(endCall(Cur, i), initsFlags)
       IN Commit(c, Step("editDone", c, 0, Bool(initsFlags)))

EditDone ==
    \E i \in 1..Len(inflight), initsFlags \in BOOLEAN : EditDoneWith(i, initsFlags)

\* ScrobbleService.toggleLove returns to toggleLove.
LoveDone ==
    /\ \E i \in 1..Len(inflight) :
          /\ inflight[i].k = "love"
          /\ LET c == toggleLoveDone(endCall(Cur, i), inflight[i].loved)
             IN Commit(c, Step("loveDone", c, 0, Bool(inflight[i].loved)))

\* The record of a step is taken: the host has seen what the step sent.  The
\* controller does not read `emitted` or `last`.
Recorded ==
    /\ last # NoStep
    /\ last' = NoStep
    /\ emitted' = <<>>
    /\ UNCHANGED <<ctlVars, inflight>>

Next ==
    \/ Recorded
    \/ PodcastOptionLoaded
    \/ SetEnabled
    \/ Finish
    \/ OnStateChanged
    \/ ResetSongData
    \/ SkipCurrentSong
    \/ SetUserSongData
    \/ ToggleLove
    \/ Tick
    \/ PlaybackTimerFired
    \/ ReplayDetectionTimerFired
    \/ PipelineDone
    \/ OptionDone
    \/ UpdateTimersReturned
    \/ NowPlayingDone
    \/ ScrobbleDone
    \/ EditDone
    \/ LoveDone

Spec == Init /\ [][Next]_vars

\* The controller with a user who does nothing: connector, timers and the
\* returns of the pipeline, the option store and the services.
NextNoUser ==
    \/ Recorded
    \/ PodcastOptionLoaded
    \/ SetEnabled
    \/ Finish
    \/ OnStateChanged
    \/ Tick
    \/ PlaybackTimerFired
    \/ ReplayDetectionTimerFired
    \/ PipelineDone
    \/ OptionDone
    \/ UpdateTimersReturned
    \/ NowPlayingDone
    \/ ScrobbleDone

SpecNoUser == Init /\ [][NextNoUser]_vars

-----------------------------------------------------------------------------
\* Reading what a step sent.

\* out holds the output (t, v).
Has(out, t, v) == \E n \in 1..Len(out) : out[n] = Out(t, v)

\* The step started an external call of kind k.
Started(out, k) == Has(out, "call", k)

\* The step left every field of the controller, and the calls it awaits, alone
\* and sent nothing.
NothingHappens == UNCHANGED ctlVars /\ inflight' = inflight /\ emitted' = <<>>

\* The return of an awaited call left every field of the controller alone,
\* sent nothing and started nothing.
NothingFollows ==
    UNCHANGED ctlVars /\ Len(inflight') = Len(inflight) - 1 /\ emitted' = <<>>

-----------------------------------------------------------------------------
\* C1: when ScrobbleService.scrobble returns the results R to scrobbleSong and
\* a song is current: if some element of R is OK the song's isScrobbled flag is
\* true afterwards, the mode is Scrobbled, and the step sends, in this order,
\* the mode change, the track-updated notification and SongScrobbled.  (With
\* no current song line 521 throws and nothing changes.)  Otherwise the mode
\* becomes Ignored if R is non-empty and all IGNORE, and Err if not (R empty
\* included); the song and its isScrobbled flag are as before and
\* SongScrobbled is not sent.
C1_ScrobbleResult ==
    [][last'.op = "scrobbleDone" =>
       \A i \in 1..Len(inflight), R \in ResultLists :
          ScrobbleDoneWith(i, R) =>
             IF \E n \in 1..Len(R) : R[n] = "OK"
             THEN IF currentSong.id # 0
                  THEN /\ currentSong' = [currentSong EXCEPT !.isScrobbled = TRUE]
                       /\ mode' = "Scrobbled"
                       /\ emitted' = <<Out("mode", "Scrobbled"), Out("songUpdated", ""),
                                       Out("event", "SongScrobbled")>>
                  ELSE last'.threw /\ NothingFollows
             ELSE /\ mode' = IF Len(R) > 0 /\ \A n \in 1..Len(R) : R[n] = "IGNORE"
                             THEN "Ignored" ELSE "Err"
                  /\ currentSong' = currentSong
                  /\ emitted' = <<Out("mode", mode')>>]_vars

\* A scrobble has returned OK for the current song.
C1_Witness ==
    /\ last.op = "scrobbleDone"
    /\ mode = "Scrobbled"
    /\ currentSong.isScrobbled
    /\ Has(emitted, "event", "SongScrobbled")

\* C2: when ScrobbleService.sendNowPlaying returns the results R, the mode
\* becomes Playing if some element of R is OK and Err if none is (R empty or
\* all IGNORE included), and in both cases the step sends the mode change and
\* then SongNowPlaying, once, and nothing else.
C2_NowPlayingResult ==
    [][last'.op = "nowPlayingDone" =>
       \A i \in 1..Len(inflight), R \in ResultLists :
          NowPlayingDoneWith(i, R) =>
             /\ mode' = IF \E n \in 1..Len(R) : R[n] = "OK" THEN "Playing" ELSE "Err"
             /\ emitted' = <<Out("mode", mode'), Out("event", "SongNowPlaying")>>]_vars

\* A now-playing submission has returned without an OK.
C2_Witness ==
    /\ last.op = "nowPlayingDone"
    /\ mode = "Err"
    /\ emitted = <<Out("mode", "Err"), Out("event", "SongNowPlaying")>>

\* C3: while the controller is disabled, onStateChanged with any snapshot
\* changes nothing: mode, song, both timers and the replay signal are as
\* before, nothing is sent and no call is started.
C3_DisabledIgnoresSnapshots ==
    [][last'.op = "onStateChanged" /\ ~isEnabled =>
       \A newState \in States :
          OnStateChangedWith(newState) => NothingHappens]_vars

\* A snapshot of a track has been delivered to a disabled controller.
C3_Witness ==
    /\ last.op = "onStateChanged"
    /\ last.arg = "track"
    /\ ~isEnabled

\* C4: a snapshot with no (artist and track) pair, no uniqueID and no duration,
\* playing or not, delivered to an enabled controller: with a song current it
\* sends ControllerReset, resets both timers, leaves no song current and sets
\* mode Base; with no song current it changes nothing and sends nothing.
\* Either way no song is current afterwards that was not current before.
C4_EmptySnapshotResets ==
    [][last'.op = "onStateChanged" /\ isEnabled =>
       \A newState \in States :
          /\ newState.artist = "" \/ newState.track = ""
          /\ newState.uniqueID = ""
          /\ newState.duration = 0
          /\ OnStateChangedWith(newState)
          => IF currentSong.id # 0
             THEN /\ emitted' = <<Out("event", "ControllerReset"), Out("mode", "Base")>>
                  /\ playbackTimer' = TimerNew
                  /\ replayDetectionTimer' = TimerNew
                  /\ currentSong' = NoSong
                  /\ mode' = "Base"
             ELSE NothingHappens]_vars

\* An empty snapshot has arrived while a song was current.
C4_Witness ==
    /\ last.op = "onStateChanged"
    /\ last.arg = "empty"
    /\ emitted = <<Out("event", "ControllerReset"), Out("mode", "Base")>>
    /\ currentSong = NoSong

\* C5: whenever pipeline.process returns false for the song that is still
\* current, having left it not valid (the boolean it returns is the validity
\* of the entity), the mode becomes Unknown, so that it is no longer Loading,
\* and SongUnrecognized is sent.
C5_InvalidEntityIsUnrecognized ==
    [][last'.op = "pipelineDone" =>
       \A i \in 1..Len(inflight) :
          PipelineDoneWith(i, FALSE, FALSE) /\ inflight[i].song = 1 =>
             /\ mode' = "Unknown"
             /\ Has(emitted', "event", "SongUnrecognized")]_vars

\* C6: with the current song's isScrobbled flag true, setUserSongData throws,
\* saves nothing and does not re-enter normalization (the step changes
\* nothing and starts no call); and a step after which the flag is false is
\* a step that removed or replaced the song (resetState, which sends
\* ControllerReset): no other step clears the flag.
C6_ScrobbledIsTerminal ==
    [][/\ currentSong.isScrobbled /\ SetUserSongData => last'.threw /\ NothingHappens
       /\ currentSong.isScrobbled /\ ~currentSong'.isScrobbled =>
             Has(emitted', "event", "ControllerReset")]_vars

\* The operations of the user.
UserOperation == ResetSongData \/ SkipCurrentSong \/ SetUserSongData \/ ToggleLove

\* C7: resetSongData, skipCurrentSong, setUserSongData and toggleLove, called
\* with no song current or on a disabled controller, throw and change
\* nothing: mode, song, timers and flags are as before, nothing is sent and no
\* call is started.
C7_UserOperationsNeedASong ==
    [][(currentSong.id = 0 \/ ~isEnabled) /\ UserOperation =>
          last'.threw /\ NothingHappens]_vars

\* An operation of the user has been refused on a disabled controller.
C7_Witness ==
    /\ last.op \in {"resetSongData", "skipCurrentSong", "setUserSongData", "toggleLove"}
    /\ last.threw
    /\ ~isEnabled

\* C8 (with a user who does nothing, only the intake of a podcast with podcast
\* scrobbling off sets isSkipped): the intake sends ControllerReset and goes to
\* Skipped without Loading and without starting a call; and while that song is
\* current no step starts a normalization, a now-playing submission or a
\* scrobble, and no timer fires.
C8_SkippedPodcastIsLeftAlone ==
    [][/\ last'.op = "onStateChanged" /\ currentSong'.isSkipped
             /\ Has(emitted', "event", "ControllerReset") =>
                /\ emitted' = <<Out("event", "ControllerReset"), Out("mode", "Skipped"),
                                Out("songUpdated", "")>>
                /\ mode' = "Skipped"
       /\ currentSong.isSkipped /\ ~Has(emitted', "event", "ControllerReset") =>
             /\ ~Started(emitted', "process")
             /\ ~Started(emitted', "nowplaying")
             /\ ~Started(emitted', "scrobble")
             /\ last'.op \notin {"playbackTimer", "replayDetectionTimer"}]_vars

\* C9: once skipCurrentSong has set mode Skipped and flagged the song, every
\* snapshot, timer expiry and return of the pipeline or of a submission that
\* leaves the song current leaves the mode Skipped and starts no now-playing
\* submission and no scrobble.
C9_SkippedStaysSkipped ==
    [][/\ currentSong.isSkipped
       /\ mode = "Skipped"
       /\ last'.op \in {"onStateChanged", "tick", "playbackTimer", "replayDetectionTimer",
                        "pipelineDone", "updateTimersReturned", "nowPlayingDone",
                        "scrobbleDone"}
       /\ ~Has(emitted', "event", "ControllerReset")
       => /\ mode' = "Skipped"
          /\ ~Started(emitted', "nowplaying")
          /\ ~Started(emitted', "scrobble")]_vars

\* C10: the return of a pipeline.process call made for a song that is no
\* longer current (replaced by another song, or removed) changes neither the
\* mode, nor the timers, nor the song that is current now, and sends nothing.
C10_StaleNormalizationIsDropped ==
    [][last'.op = "pipelineDone" =>
       \A i \in 1..Len(inflight), result \in BOOLEAN, valid \in BOOLEAN :
          PipelineDoneWith(i, result, valid) /\ inflight[i].song = 0 =>
             /\ mode' = mode
             /\ UNCHANGED <<playbackTimer, replayDetectionTimer, currentSong>>
             /\ emitted' = <<>>]_vars

\* The awaited calls whose kind is one of kinds.
Outstanding(kinds) == {i \in 1..Len(inflight) : inflight[i].k \in kinds}

\* C11: in every state at most one pipeline.process call is awaited, and at
\* most one submission (now-playing or scrobble).
C11_OneCallOutstanding ==
    /\ Cardinality(Outstanding({"process"})) <= 1
    /\ Cardinality(Outstanding({"nowplaying", "scrobble"})) <= 1

\* C12: a scrobble is started only by the expiry of the playback timer while
\* it holds a target, and for a current song that is valid; and a step that
\* gives the playback timer of a current song a target leaves that song valid.
C12_ScrobbleOnlyWhenValidated ==
    [][/\ Started(emitted', "scrobble") =>
             /\ last'.op = "playbackTimer"
             /\ playbackTimer.target # 0
             /\ currentSong.id # 0
             /\ Song_isValid(currentSong)
       /\ playbackTimer.target = 0 /\ playbackTimer'.target # 0 /\ currentSong'.id # 0 =>
             Song_isValid(currentSong')]_vars

\* C13: whenever Util.getSecondsToScrobble signals not scrobblable to
\* updateTimers, at the sizing after validation or at a duration correction,
\* the playback timer has no target afterwards (and so does not fire).
C13_NotScrobblableLeavesNoTarget ==
    [][last'.op = "optionDone" =>
       \A i \in 1..Len(inflight), rearms \in BOOLEAN :
          OptionDoneWith(i, NotScrobblable, rearms) => playbackTimer'.target = 0]_vars

\* A snapshot has just been taken in by processNewState: the step reset the
\* controller and left a song current.
Intake ==
    /\ last'.op = "onStateChanged"
    /\ Has(emitted', "event", "ControllerReset")
    /\ currentSong'.id # 0

\* C14: after every intake of a new song by processNewState, the podcast-skip
\* exit included, isReplayingSong is false.
C14_IntakeClearsReplaySignal ==
    [][Intake => ~isReplayingSong']_vars

\* C15: isMarkedAsPlaying is set when a now-playing submission starts and is
\* cleared when normalization completes with the song valid; so at most one
\* submission per song between two completions means: a step that starts a
\* now-playing submission for the song that was current before it finds the
\* song's isMarkedAsPlaying flag false.
C15_OneNowPlayingPerNormalization ==
    [][Started(emitted', "nowplaying") /\ ~Has(emitted', "event", "ControllerReset")
          => ~currentSong.isMarkedAsPlaying]_vars

\* C16: in every state, mode Playing implies that a song is current, that it
\* is valid and that its isMarkedAsPlaying flag is true.
C16_PlayingMeansSubmittedSong ==
    mode = "Playing" =>
       /\ currentSong.id # 0
       /\ Song_isValid(currentSong)
       /\ currentSong.isMarkedAsPlaying

\* C17: an intake creates a song with isReplaying true only if a song was
\* current just before it and the new song has that song's artist, track,
\* album and uniqueID.
C17_ReplayOnlyOfSameTrack ==
    [][Intake /\ currentSong'.isReplaying =>
          /\ currentSong.id # 0
          /\ currentSong'.artist = currentSong.artist
          /\ currentSong'.track = currentSong.track
          /\ currentSong'.album = currentSong.album
          /\ currentSong'.uniqueID = currentSong.uniqueID]_vars


\* C18: for each track entity at most one scrobble submission is started while
\* it is the current entity: the playback timer is reset with every new
\* entity, so a step that starts a scrobble finds a playback timer that has not
\* expired yet.
C18_OneScrobblePerEntity ==
    [][Started(emitted', "scrobble") => ~Timer_isExpired(playbackTimer)]_vars

\* C19: when the current entity has been replaced while a scrobble call for
\* the previous entity was in flight, the return of that call neither changes
\* the isScrobbled flag of the new entity nor sets mode Scrobbled.
C19_StaleScrobbleLeavesNewEntity ==
    [][last'.op = "scrobbleDone" /\ last'.song = 0 /\ currentSong.id # 0 =>
          /\ currentSong'.isScrobbled = currentSong.isScrobbled
          /\ ~Has(emitted', "mode", "Scrobbled")]_vars

\* C20: in every reachable state the mode is Disabled if and only if the
\* controller is not enabled.
C20_DisabledIffNotEnabled == (mode = "Disabled") <=> ~isEnabled

====
